---------------------------- MODULE Spec2Model ----------------------------
(***************************************************************************)
(* A model of ros_atlas: the configuration loader (src/src/config.cpp) and *)
(* the pose filters WeightedMean / PassThroughFilter declared in the       *)
(* filter header (src/unnamed/part_000).                                   *)
(*                                                                         *)
(* Numbers.  A YAML numeric scalar and a C++ double are modelled as an     *)
(* integer number of hundredths: 100 is 1.0, 25 is 0.25, 18000 is 180.0.   *)
(*                                                                         *)
(* YAML nodes.  An optional child is a sequence of length 0 (the key is    *)
(* absent) or 1 (the child).  An array is a sequence of elements, each     *)
(* element <<n>> (a scalar that converts to the number n) or <<>> (a       *)
(* scalar that does not convert to a number).                              *)
(***************************************************************************)
EXTENDS Integers, Sequences, FiniteSets, TLC

VARIABLES
    \* ---- Config (src/src/config.cpp) ----
    m_entities,     \* std::vector<Entity>
    m_options,      \* Options
    loaded,         \* history of the loadFromString calls made so far
    \* ---- Config::parseTransform called on its own ----
    tNode,          \* the node given to parseTransform
    tResult,        \* <<>> before the call, <<outcome>> after it
    \* ---- WeightedMean (src/unnamed/part_000) ----
    m_vectors,      \* running sum of weight * vector
    m_vectorWeights,\* running total weight of the vectors
    m_quats,        \* running sum of weight * outer product of the quaternion
    m_quatWeights,  \* running total weight of the quaternions
    history,        \* the add calls completed since the last clear()
    lastOp,         \* the last operation called on the accumulator
    discarded,      \* how many contributions the last clear() discarded
    \* ---- one entity's accumulator used by two threads ----
    lock,           \* the entity's lock: "free", "io" or "loop"
    pcIo,           \* where the delivering thread is
    pcLoop,         \* where the loop thread is
    inflight,       \* the observation the delivering thread is adding
    delivered,      \* observations delivered so far
    extracted       \* <<>>, or <<what the last extraction read>>

configVars == <<m_entities, m_options, loaded>>
transformVars == <<tNode, tResult>>
meanVars == <<m_vectors, m_vectorWeights, m_quats, m_quatWeights, history, lastOp, discarded>>
threadVars == <<lock, pcIo, pcLoop, inflight, delivered, extracted>>
vars == <<m_entities, m_options, loaded, tNode, tResult,
          m_vectors, m_vectorWeights, m_quats, m_quatWeights, history, lastOp, discarded,
          lock, pcIo, pcLoop, inflight, delivered, extracted>>

---------------------------------------------------------------------------
\* Bounds of the model.

\* Number of loadFromString calls on one Config.
MaxLoads == 2
\* Number of entities in one multi-entity document.
MaxEntities == 2
\* Largest array length tried for 'rot' and 'origin'.
MaxArrayLen == 5
\* Number of add calls between two clear() calls.
MaxAdds == 3
\* Number of observations the delivering thread delivers.
MaxDeliveries == 2

---------------------------------------------------------------------------
\* Values.

\* 1.0 in hundredths.
One == 100
\* 180 degrees in hundredths of a degree.
HalfTurn == 18000

Zero3 == <<0, 0, 0>>
\* tf2::Quaternion::getIdentity(), as <<x, y, z, w>>.
IdentityQuat == <<0, 0, 0, One>>
\* tf2::Transform::getIdentity().
IdentityTransform == [rot |-> IdentityQuat, origin |-> Zero3]

\* tf2::Vector3's default constructor initialises nothing: "tf2::Vector3
\* origin;" holds an indeterminate value until a component is set.  These are
\* the values the model lets it hold.
Indeterminate == {Zero3, <<111, 222, 333>>}

\* Sensor::Type.  A value-initialised Sensor::Type is the enumerator 0.
MarkerBased == 0
NonMarkerBased == 1

\* Fallbacks of the as<T>(fallback) calls.
UndefinedName == "undefined"
\* A loader whose fallback for 'type' is the other type name.
TypeFallbackNonMarker == "NonMarkerBased"
TypeFallback == "MarkerBased"
DefaultAlpha == 10
DefaultSigma == 100
DefaultMarkerId == -1
DefaultGraphFilename == ""
DefaultGraphInterval == 0
DefaultLoopRate == 6000
DefaultDecayDuration == 25
DefaultPublish == TRUE

---------------------------------------------------------------------------
\* yaml-cpp accessors, as config.cpp uses them.

\* node["key"].as<T>(fallback): the child's value, the fallback when the key
\* is absent.
AsOr(opt, fallback) == IF Len(opt) = 0 THEN fallback ELSE opt[1]

\* node["key"].size(): the length of the array, 0 when the key is absent
\* (the case the code tells apart from a wrong size with "size() != 0").
Size(optArray) == IF Len(optArray) = 0 THEN 0 ELSE Len(optArray[1])

\* node["key"][i].as<double>() has no fallback: it throws when the element
\* does not convert.
Converts(array) == \A i \in 1..Len(array) : Len(array[i]) = 1
Doubles(array) == [i \in 1..Len(array) |-> array[i][1]]

---------------------------------------------------------------------------
\* Config::parseTransform.

\* sin and cos of half the angle, for the angles 0 and 180 degrees.
HalfSin(deg) == IF deg = HalfTurn THEN 1 ELSE 0
HalfCos(deg) == IF deg = HalfTurn THEN 0 ELSE 1

\* rot.setRPY(from_degrees(r), from_degrees(p), from_degrees(y)).
SetRPY(r, p, y) ==
    << One * (HalfSin(r) * HalfCos(p) * HalfCos(y) - HalfCos(r) * HalfSin(p) * HalfSin(y)),
       One * (HalfCos(r) * HalfSin(p) * HalfCos(y) + HalfSin(r) * HalfCos(p) * HalfSin(y)),
       One * (HalfCos(r) * HalfCos(p) * HalfSin(y) - HalfSin(r) * HalfSin(p) * HalfCos(y)),
       One * (HalfCos(r) * HalfCos(p) * HalfCos(y) + HalfSin(r) * HalfSin(p) * HalfSin(y)) >>

\* Lines 46-67: the outcomes of parsing 'rot'.
ParseRot(t) ==
    IF Size(t.rot) = 4
    THEN IF Converts(t.rot[1])
         THEN [threw |-> FALSE, rot |-> Doubles(t.rot[1]), warns |-> {}]
         ELSE [threw |-> TRUE, rot |-> IdentityQuat, warns |-> {}]
    ELSE IF Size(t.rot) = 3
    THEN IF Converts(t.rot[1])
         THEN [threw |-> FALSE, warns |-> {},
               rot |-> SetRPY(t.rot[1][1][1], t.rot[1][2][1], t.rot[1][3][1])]
         ELSE [threw |-> TRUE, rot |-> IdentityQuat, warns |-> {}]
    ELSE IF Size(t.rot) # 0
    THEN [threw |-> FALSE, rot |-> IdentityQuat, warns |-> {"rot"}]
    ELSE [threw |-> FALSE, rot |-> IdentityQuat, warns |-> {}]

\* Lines 69-81: the outcomes of parsing 'origin'.  "tf2::Vector3 origin;" is
\* not initialised, so when no branch sets it its value is indeterminate.
ParseOrigin(t) ==
    IF Size(t.origin) = 3
    THEN IF Converts(t.origin[1])
         THEN {[threw |-> FALSE, origin |-> Doubles(t.origin[1]), warns |-> {}]}
         ELSE {[threw |-> TRUE, origin |-> Zero3, warns |-> {}]}
    ELSE IF Size(t.origin) # 0
    THEN {[threw |-> FALSE, origin |-> g, warns |-> {"origin"}] : g \in Indeterminate}
    ELSE {[threw |-> FALSE, origin |-> g, warns |-> {}] : g \in Indeterminate}

\* The set of outcomes of parseTransform(node): it returns transf, after
\* logging the warnings warns, or throws (threw) after logging them.
parseTransform(node) ==
    IF Len(node) = 0
    THEN {[threw |-> FALSE, transf |-> IdentityTransform, warns |-> {}]}
    ELSE LET r == ParseRot(node[1])
         IN  IF r.threw
             THEN {[threw |-> TRUE, transf |-> IdentityTransform, warns |-> r.warns]}
             ELSE {[threw |-> o.threw,
                    transf |-> [rot |-> r.rot, origin |-> o.origin],
                    warns |-> r.warns \cup o.warns] : o \in ParseOrigin(node[1])}

---------------------------------------------------------------------------
\* Config::parseRoot.

\* A loader that inserts at the front of the vector.
PushFront(list, item) == <<item>> \o list
\* m_entities.push_back(e), sensors.push_back(s), markers.push_back(m).
PushBack(list, item) == Append(list, item)

\* The children a range-for over node["key"] visits: none when the key is
\* absent.
Children(optList) == AsOr(optList, <<>>)

\* typeMap[key] (std::map::operator[]): the mapped type, and for a key the
\* map does not hold a value-initialised one, the enumerator 0.
typeMap == [MarkerBased |-> MarkerBased, NonMarkerBased |-> NonMarkerBased]
TypeMapAt(key) == IF key \in DOMAIN typeMap THEN typeMap[key] ELSE 0

\* Lines 115-121: one sensor.
parseSensor(s) ==
    {[threw |-> t.threw, warns |-> t.warns,
      item |-> [name   |-> AsOr(s.sensor, UndefinedName),
                topic  |-> AsOr(s.topic, UndefinedName),
                type   |-> TypeMapAt(AsOr(s.type, TypeFallback)),
                sigma  |-> AsOr(s.sigma, DefaultSigma),
                target |-> AsOr(s.target, UndefinedName),
                transf |-> t.transf]] : t \in parseTransform(s.transform)}

\* Lines 130-132: one marker.
parseMarker(m) ==
    {[threw |-> t.threw, warns |-> t.warns,
      item |-> [id     |-> AsOr(m.marker, DefaultMarkerId),
                transf |-> t.transf]] : t \in parseTransform(m.transform)}

\* Lines 113-125: the sensor loop.  An exception leaves the loop.
RECURSIVE parseSensors(_)
parseSensors(nodes) ==
    IF Len(nodes) = 0
    THEN {[threw |-> FALSE, items |-> <<>>, warns |-> {}]}
    ELSE LET front == parseSensors(SubSeq(nodes, 1, Len(nodes) - 1))
         IN  {o \in front : o.threw} \cup
             {[threw |-> s.threw,
               items |-> IF s.threw THEN o.items ELSE PushBack(o.items, s.item),
               warns |-> o.warns \cup s.warns] :
                 o \in {f \in front : ~f.threw}, s \in parseSensor(nodes[Len(nodes)])}

\* Lines 128-135: the marker loop.
RECURSIVE parseMarkers(_)
parseMarkers(nodes) ==
    IF Len(nodes) = 0
    THEN {[threw |-> FALSE, items |-> <<>>, warns |-> {}]}
    ELSE LET front == parseMarkers(SubSeq(nodes, 1, Len(nodes) - 1))
         IN  {o \in front : o.threw} \cup
             {[threw |-> m.threw,
               items |-> IF m.threw THEN o.items ELSE PushBack(o.items, m.item),
               warns |-> o.warns \cup m.warns] :
                 o \in {f \in front : ~f.threw}, m \in parseMarker(nodes[Len(nodes)])}

\* Lines 106-135: one entity.  items is <<entityData>>, or <<>> when an
\* exception left the body before the entity was complete.
parseEntity(e) ==
    LET done(ss, ms) ==
            [threw |-> FALSE, warns |-> ss.warns \cup ms.warns,
             items |-> << [name         |-> AsOr(e.entity, UndefinedName),
                           filterConfig |-> [alpha |-> AsOr(e.filterAlpha, DefaultAlpha)],
                           sensors      |-> ss.items,
                           markers      |-> ms.items] >>]
        sensorRuns == parseSensors(Children(e.sensors))
        markerRuns == parseMarkers(Children(e.markers))
    IN  {[threw |-> TRUE, warns |-> ss.warns, items |-> <<>>] :
            ss \in {r \in sensorRuns : r.threw}}
        \cup {[threw |-> TRUE, warns |-> ss.warns \cup ms.warns, items |-> <<>>] :
            ss \in {r \in sensorRuns : ~r.threw}, ms \in {r \in markerRuns : r.threw}}
        \cup {done(ss, ms) :
            ss \in {r \in sensorRuns : ~r.threw}, ms \in {r \in markerRuns : ~r.threw}}

\* Lines 104-139: the entity loop, started with the vector holding list.
RECURSIVE parseEntities(_, _)
parseEntities(list, nodes) ==
    IF Len(nodes) = 0
    THEN {[threw |-> FALSE, entities |-> list, warns |-> {}]}
    ELSE LET front == parseEntities(list, SubSeq(nodes, 1, Len(nodes) - 1))
         IN  {o \in front : o.threw} \cup
             {[threw    |-> e.threw,
               entities |-> IF e.threw THEN o.entities
                                       ELSE PushBack(o.entities, e.items[1]),
               warns    |-> o.warns \cup e.warns] :
                 o \in {f \in front : ~f.threw}, e \in parseEntity(nodes[Len(nodes)])}

\* Lines 146-153: every option is assigned, absent keys from the fallbacks.
LoadOptions(o) ==
    [dbgGraphFilename     |-> <<AsOr(o.dbgDumpGraphFilename, DefaultGraphFilename)>>,
     dbgGraphInterval     |-> <<AsOr(o.dbgDumpGraphInterval, DefaultGraphInterval)>>,
     loopRate             |-> <<AsOr(o.loopRate, DefaultLoopRate)>>,
     decayDuration        |-> <<AsOr(o.decayDuration, DefaultDecayDuration)>>,
     publishMarkers       |-> <<AsOr(o.publishMarkers, DefaultPublish)>>,
     publishWorldSensors  |-> <<AsOr(o.publishWorldSensors, DefaultPublish)>>,
     publishEntitySensors |-> <<AsOr(o.publishEntitySensors, DefaultPublish)>>,
     publishPoseTopics    |-> <<AsOr(o.publishPoseTopics, DefaultPublish)>>]

\* Lines 94-101: the messages of the sanity checks.
SanityWarns(node) ==
    (IF ~node.defined THEN {"empty"} ELSE {})
    \cup (IF Len(node.entities) = 0 THEN {"entities"} ELSE {})
    \cup (IF Len(node.options) = 0 THEN {"options"} ELSE {})

\* The set of outcomes of parseRoot(node) on a Config holding (entities,
\* options): the two members afterwards, whether the call threw, and the
\* messages it logged.
parseRoot(entities, options, node) ==
    {[threw    |-> r.threw,
      entities |-> r.entities,
      options  |-> IF ~r.threw /\ Len(node.options) = 1
                   THEN LoadOptions(node.options[1]) ELSE options,
      warns    |-> SanityWarns(node) \cup r.warns] :
        r \in parseEntities(entities, Children(node.entities))}

---------------------------------------------------------------------------
\* The documents and nodes the model feeds to the loader.

\* An array of numeric scalars.
Nums(values) == [i \in 1..Len(values) |-> <<values[i]>>]
\* The same array with its first element replaced by a word.
WithWord(array) == [array EXCEPT ![1] = <<>>]
\* An array of n zeros.
Zeros(n) == [i \in 1..n |-> <<0>>]

GoodRot == <<Nums(<<0, 0, 0, One>>)>>
GoodOrigin == <<Nums(<<100, 200, 300>>)>>

\* 'rot': absent, arrays of every length up to MaxArrayLen, quaternions,
\* roll-pitch-yaw triples, and arrays holding a word.
RotInputs ==
    {<<>>, GoodRot, <<Nums(<<One, 0, 0, 0>>)>>,
     <<Nums(<<0, 0, HalfTurn>>)>>, <<Nums(<<HalfTurn, 0, HalfTurn>>)>>,
     <<WithWord(Zeros(4))>>, <<WithWord(Zeros(3))>>}
    \cup {<<Zeros(n)>> : n \in 0..MaxArrayLen}

\* 'origin': absent, arrays of every length up to MaxArrayLen, a position,
\* and an array holding a word.
OriginInputs ==
    {<<>>, GoodOrigin, <<WithWord(Zeros(3))>>}
    \cup {<<Zeros(n)>> : n \in 0..MaxArrayLen}

\* Every transform node: absent, or a map with 'rot' and 'origin'.
TransformInputs ==
    {<<>>} \cup {<<[rot |-> r, origin |-> o]>> : r \in RotInputs, o \in OriginInputs}

\* The transform nodes used inside documents: a good one with one of its
\* two keys absent, wrong-sized, given as roll-pitch-yaw or holding a word.
DocTransforms ==
    {<<>>}
    \cup {<<[rot |-> r, origin |-> GoodOrigin]>> :
            r \in {<<>>, GoodRot, <<Nums(<<0, 0, HalfTurn>>)>>, <<Zeros(2)>>,
                   <<WithWord(Zeros(4))>>}}
    \cup {<<[rot |-> GoodRot, origin |-> o]>> :
            o \in {<<>>, <<Zeros(2)>>, <<Zeros(4)>>, <<WithWord(Zeros(3))>>}}

TypeInputs == {<<>>, <<"MarkerBased">>, <<"NonMarkerBased">>, <<"Lidar">>}

SensorWith(name, type, transform) ==
    [sensor |-> <<name>>, topic |-> <<"/cam/markers">>, type |-> type,
     sigma |-> <<50>>, target |-> <<"world">>, transform |-> transform]
BareSensor ==
    [sensor |-> <<>>, topic |-> <<>>, type |-> <<>>,
     sigma |-> <<>>, target |-> <<>>, transform |-> <<>>]

MarkerWith(id, transform) == [marker |-> <<id>>, transform |-> transform]
BareMarker == [marker |-> <<>>, transform |-> <<>>]

EntityWith(name, sensors, markers) ==
    [entity |-> <<name>>, filterAlpha |-> <<30>>, sensors |-> sensors, markers |-> markers]
BareEntity == [entity |-> <<>>, filterAlpha |-> <<>>, sensors |-> <<>>, markers |-> <<>>]

\* Entities that vary in one respect each.
EntityInputs ==
    {EntityWith("a", << <<SensorWith("cam", t, <<>>)>> >>, <<>>) : t \in TypeInputs}
    \cup {EntityWith("b", <<>>, << <<MarkerWith(7, tr)>> >>) : tr \in DocTransforms}
    \cup {EntityWith("c", << <<SensorWith("imu", <<"NonMarkerBased">>,
                                         <<[rot |-> GoodRot, origin |-> o]>>)>> >>, <<>>) :
             o \in {<<>>, GoodOrigin, <<Zeros(2)>>}}
    \cup {BareEntity, EntityWith("d", << <<BareSensor>> >>, << <<BareMarker>> >>)}

\* Entities with several sensors and markers, for the order of the lists.
OrderEntities ==
    { EntityWith("e", << <<SensorWith("s1", <<"Lidar">>, <<>>),
                          SensorWith("s2", <<"NonMarkerBased">>, <<>>)>> >>,
                      << <<MarkerWith(1, <<>>), MarkerWith(2, <<>>)>> >>),
      EntityWith("f", << <<SensorWith("s2", <<>>, <<>>),
                          SensorWith("s1", <<"MarkerBased">>, <<>>)>> >>,
                      << <<MarkerWith(2, <<>>), MarkerWith(1, <<>>)>> >>) }

\* An entity whose second marker makes parseTransform throw.
ThrowingEntity ==
    EntityWith("g", <<>>, << <<MarkerWith(1, <<>>),
                              MarkerWith(2, <<[rot |-> <<WithWord(Zeros(4))>>,
                                               origin |-> GoodOrigin]>>)>> >>)

OrderLists ==
    UNION {[1..n -> OrderEntities] : n \in 2..MaxEntities}
    \cup {<<e, ThrowingEntity>> : e \in OrderEntities}
    \cup {<<ThrowingEntity, e>> : e \in OrderEntities}

NoOptions ==
    [dbgDumpGraphFilename |-> <<>>, dbgDumpGraphInterval |-> <<>>, loopRate |-> <<>>,
     decayDuration |-> <<>>, publishMarkers |-> <<>>, publishWorldSensors |-> <<>>,
     publishEntitySensors |-> <<>>, publishPoseTopics |-> <<>>]
OptionInputs ==
    {NoOptions,
     [NoOptions EXCEPT !.loopRate = <<3000>>, !.publishMarkers = <<FALSE>>],
     [dbgDumpGraphFilename |-> <<"graph.dot">>, dbgDumpGraphInterval |-> <<200>>,
      loopRate |-> <<1000>>, decayDuration |-> <<50>>, publishMarkers |-> <<FALSE>>,
      publishWorldSensors |-> <<FALSE>>, publishEntitySensors |-> <<TRUE>>,
      publishPoseTopics |-> <<FALSE>>]}

\* YAML::Load(""): the empty document.
EmptyDocument == [defined |-> FALSE, entities |-> <<>>, options |-> <<>>]
Document(entityList, optionMap) ==
    [defined |-> TRUE, entities |-> entityList, options |-> optionMap]

Documents ==
    {EmptyDocument, Document(<<>>, <<>>), Document(<< <<>> >>, <<>>)}
    \cup {Document(<<>>, <<o>>) : o \in OptionInputs}
    \cup {Document(<< <<e>> >>, <<>>) : e \in EntityInputs}
    \cup {Document(<<es>>, <<>>) : es \in OrderLists}
    \cup {Document(<<es>>, <<o>>) : es \in [1..2 -> OrderEntities], o \in OptionInputs}

---------------------------------------------------------------------------
\* Config.

\* Config::Config(): no entity; the options hold what Options' own
\* constructor gives them, which no load has assigned (<<>>).
UnloadedOptions ==
    [dbgGraphFilename |-> <<>>, dbgGraphInterval |-> <<>>, loopRate |-> <<>>,
     decayDuration |-> <<>>, publishMarkers |-> <<>>, publishWorldSensors |-> <<>>,
     publishEntitySensors |-> <<>>, publishPoseTopics |-> <<>>]

ConfigInit ==
    /\ m_entities = <<>>
    /\ m_options = UnloadedOptions
    /\ loaded = <<>>

\* Config::loadFromString(input), input being the text of document doc.
\* loaded records the call: the document, the entities the call appended,
\* whether it threw and what it logged.
loadFromString(doc) ==
    /\ Len(loaded) < MaxLoads
    /\ \E out \in parseRoot(m_entities, m_options, doc) :
        /\ m_entities' = out.entities
        /\ m_options' = out.options
        /\ loaded' = Append(loaded,
              [doc      |-> doc,
               appended |-> SubSeq(out.entities, Len(m_entities) + 1, Len(out.entities)),
               threw    |-> out.threw,
               warns    |-> out.warns])
    /\ UNCHANGED transformVars
    /\ UNCHANGED meanVars
    /\ UNCHANGED threadVars

---------------------------------------------------------------------------
\* Config::parseTransform as a function of its node.

TransformInit ==
    /\ tNode \in TransformInputs
    /\ tResult = <<>>

CallParseTransform ==
    /\ tResult = <<>>
    /\ \E out \in parseTransform(tNode) : tResult' = <<out>>
    /\ UNCHANGED tNode
    /\ UNCHANGED configVars
    /\ UNCHANGED meanVars
    /\ UNCHANGED threadVars

---------------------------------------------------------------------------
\* WeightedMean.  The header declares the class with the members m_vectors,
\* m_quats and m_vectorWeights; the bodies of its methods, the shape of the
\* quaternion accumulation and its total weight follow the design document,
\* sections 3 and 4.1.

\* The product of two doubles (hundredths times hundredths, in hundredths).
Times(a, b) == (a * b) \div One

Abs(a) == IF a < 0 THEN 0 - a ELSE a
RECURSIVE Gcd(_, _)
Gcd(a, b) == IF b = 0 THEN a ELSE Gcd(b, a % b)

\* The quotient vector / weight of a vector by a positive double, kept exact
\* as a fraction in lowest terms: the components num[i] / den, in hundredths.
Quotient(vector, weight) ==
    LET g == Gcd(Gcd(Gcd(weight, Abs(vector[1] * One)), Abs(vector[2] * One)),
                 Abs(vector[3] * One))
    IN  [num |-> [i \in 1..3 |-> (vector[i] * One) \div g], den |-> weight \div g]

ZeroVector == [num |-> Zero3, den |-> 1]

ZeroMatrix == [i \in 1..4 |-> [j \in 1..4 |-> 0]]
\* The quaternion <<x, y, z, w>> as a 4-vector, scalar component first.
AsVector4(q) == <<q[4], q[1], q[2], q[3]>>
\* An accumulation of the quaternion's components instead of their products.
OuterProductLinear(q) ==
    LET v == AsVector4(q)
    IN  [i \in 1..4 |-> [j \in 1..4 |-> Times(One, v[j])]]
OuterProduct(q) ==
    LET v == AsVector4(q)
    IN  [i \in 1..4 |-> [j \in 1..4 |-> Times(v[i], v[j])]]
MatrixPlus(a, b) == [i \in 1..4 |-> [j \in 1..4 |-> a[i][j] + b[i][j]]]
MatrixTimes(weight, a) == [i \in 1..4 |-> [j \in 1..4 |-> Times(weight, a[i][j])]]
VectorPlus(a, b) == [i \in 1..3 |-> a[i] + b[i]]
VectorTimes(weight, a) == [i \in 1..3 |-> Times(weight, a[i])]

\* The state of a WeightedMean after construction and after clear().
ZeroState ==
    [vectors |-> Zero3, vectorWeights |-> 0, quats |-> ZeroMatrix, quatWeights |-> 0]

\* An addVec3 that adds the vector without its weight.
AddVec3Unweighted(s, vec, weight) ==
    [s EXCEPT !.vectors = VectorPlus(s.vectors, vec),
              !.vectorWeights = s.vectorWeights + weight]
\* addVec3(vec, weight) on state s.
AddVec3(s, vec, weight) ==
    [s EXCEPT !.vectors = VectorPlus(s.vectors, VectorTimes(weight, vec)),
              !.vectorWeights = s.vectorWeights + weight]

\* An addQuat that keeps the last sample instead of the running sum.
AddQuatOverwrite(s, quat, weight) ==
    [s EXCEPT !.quats = MatrixTimes(weight, OuterProduct(quat)),
              !.quatWeights = s.quatWeights + weight]
\* addQuat(quat, weight) on state s.
AddQuat(s, quat, weight) ==
    [s EXCEPT !.quats = MatrixPlus(s.quats, MatrixTimes(weight, OuterProduct(quat))),
              !.quatWeights = s.quatWeights + weight]

\* weightedMeanVec3() in state s.
WeightedMeanVec3(s) ==
    IF s.vectorWeights = 0 THEN ZeroVector ELSE Quotient(s.vectors, s.vectorWeights)

\* weightedMeanQuat() in state s: the identity rotation without weight, else
\* the unit eigenvector of the largest eigenvalue of quats / quatWeights.  The
\* eigenvector is kept as the matrix and the weight that determine it.
WeightedMeanQuat(s) ==
    IF s.quatWeights = 0
    THEN [identity |-> TRUE, matrix |-> ZeroMatrix, weight |-> 0]
    ELSE [identity |-> FALSE, matrix |-> s.quats, weight |-> s.quatWeights]

\* The accumulator of the model, as one state.
accumulator ==
    [vectors |-> m_vectors, vectorWeights |-> m_vectorWeights,
     quats |-> m_quats, quatWeights |-> m_quatWeights]
weightedMeanVec3 == WeightedMeanVec3(accumulator)
weightedMeanQuat == WeightedMeanQuat(accumulator)

\* A clear() that resets the total weights and keeps the running sums.
ClearedKeepingSums == [accumulator EXCEPT !.vectorWeights = 0, !.quatWeights = 0]
\* The state clear() leaves.
Cleared == ZeroState

\* The vectors, quaternions and weights the model adds.
VectorInputs == {<<100, 0, 0>>, <<-50, 200, 300>>}
QuatInputs == {<<0, 0, One, 0>>, <<60, 0, 0, 80>>}
WeightInputs == {0, 100, 200}

MeanInit ==
    /\ m_vectors = ZeroState.vectors
    /\ m_vectorWeights = ZeroState.vectorWeights
    /\ m_quats = ZeroState.quats
    /\ m_quatWeights = ZeroState.quatWeights
    /\ history = <<>>
    /\ lastOp = "none"
    /\ discarded = 0

Store(s) ==
    /\ m_vectors' = s.vectors
    /\ m_vectorWeights' = s.vectorWeights
    /\ m_quats' = s.quats
    /\ m_quatWeights' = s.quatWeights

addVec3(vec, weight) ==
    /\ Len(history) < MaxAdds
    /\ Store(AddVec3(accumulator, vec, weight))
    /\ history' = Append(history, [quat |-> FALSE, value |-> vec \o <<0>>, weight |-> weight])
    /\ lastOp' = "addVec3"
    /\ discarded' = 0
    /\ UNCHANGED configVars
    /\ UNCHANGED transformVars
    /\ UNCHANGED threadVars

addQuat(quat, weight) ==
    /\ Len(history) < MaxAdds
    /\ Store(AddQuat(accumulator, quat, weight))
    /\ history' = Append(history, [quat |-> TRUE, value |-> quat, weight |-> weight])
    /\ lastOp' = "addQuat"
    /\ discarded' = 0
    /\ UNCHANGED configVars
    /\ UNCHANGED transformVars
    /\ UNCHANGED threadVars

clear ==
    /\ Store(Cleared)
    /\ history' = <<>>
    /\ lastOp' = "clear"
    /\ discarded' = Len(history)
    /\ UNCHANGED configVars
    /\ UNCHANGED transformVars
    /\ UNCHANGED threadVars

---------------------------------------------------------------------------
\* One entity's WeightedMean shared by the thread that delivers observations
\* and the loop thread that extracts the fused pose, under the entity's lock
\* (design document, section 5, design b).  An add is two writes: the running
\* sum, then the running total weight.

ThreadInit ==
    /\ lock = "free"
    /\ pcIo = "idle"
    /\ pcLoop = "idle"
    /\ inflight = [vec |-> Zero3, quat |-> IdentityQuat, weight |-> 0]
    /\ delivered = 0
    /\ extracted = <<>>

\* Threads that do not wait for the lock.
CanLockAlways(thread) == TRUE
\* Whether thread may take the entity's lock.
CanLock(thread) == lock = "free"

\* The delivering thread takes the lock to add one observation.
IoLock(vec, quat, weight) ==
    /\ pcIo = "idle"
    /\ delivered < MaxDeliveries
    /\ CanLock("io")
    /\ lock' = "io"
    /\ inflight' = [vec |-> vec, quat |-> quat, weight |-> weight]
    /\ pcIo' = "vectors"
    /\ UNCHANGED <<pcLoop, delivered, extracted, meanVars, configVars, transformVars>>

\* addVec3: m_vectors += weight * vec.
IoVectors ==
    /\ pcIo = "vectors"
    /\ m_vectors' = AddVec3(accumulator, inflight.vec, inflight.weight).vectors
    /\ pcIo' = "vectorWeights"
    /\ UNCHANGED <<m_vectorWeights, m_quats, m_quatWeights, history, lastOp, discarded>>
    /\ UNCHANGED <<lock, pcLoop, inflight, delivered, extracted, configVars, transformVars>>

\* addVec3: m_vectorWeights += weight.
IoVectorWeights ==
    /\ pcIo = "vectorWeights"
    /\ m_vectorWeights' = AddVec3(accumulator, inflight.vec, inflight.weight).vectorWeights
    /\ history' = Append(history,
          [quat |-> FALSE, value |-> inflight.vec \o <<0>>, weight |-> inflight.weight])
    /\ pcIo' = "quats"
    /\ UNCHANGED <<m_vectors, m_quats, m_quatWeights, lastOp, discarded>>
    /\ UNCHANGED <<lock, pcLoop, inflight, delivered, extracted, configVars, transformVars>>

\* addQuat: m_quats += weight * outer product.
IoQuats ==
    /\ pcIo = "quats"
    /\ m_quats' = AddQuat(accumulator, inflight.quat, inflight.weight).quats
    /\ pcIo' = "quatWeights"
    /\ UNCHANGED <<m_vectors, m_vectorWeights, m_quatWeights, history, lastOp, discarded>>
    /\ UNCHANGED <<lock, pcLoop, inflight, delivered, extracted, configVars, transformVars>>

\* addQuat: the total weight of the quaternions += weight; the lock is
\* released on return.
IoQuatWeights ==
    /\ pcIo = "quatWeights"
    /\ m_quatWeights' = AddQuat(accumulator, inflight.quat, inflight.weight).quatWeights
    /\ history' = Append(history,
          [quat |-> TRUE, value |-> inflight.quat, weight |-> inflight.weight])
    /\ pcIo' = "idle"
    /\ delivered' = delivered + 1
    /\ lock' = IF lock = "io" THEN "free" ELSE lock
    /\ UNCHANGED <<m_vectors, m_vectorWeights, m_quats, lastOp, discarded>>
    /\ UNCHANGED <<pcLoop, inflight, extracted, configVars, transformVars>>

\* The loop thread takes the lock at the cycle boundary.
LoopLock ==
    /\ pcLoop = "idle"
    /\ CanLock("loop")
    /\ lock' = "loop"
    /\ pcLoop' = "extract"
    /\ UNCHANGED <<pcIo, inflight, delivered, extracted, meanVars, configVars, transformVars>>

\* weightedMeanVec3() and weightedMeanQuat().  from records the adds that
\* had completed when the means were read.
LoopExtract ==
    /\ pcLoop = "extract"
    /\ extracted' = << [vec |-> weightedMeanVec3, quat |-> weightedMeanQuat,
                        from |-> history] >>
    /\ pcLoop' = "clear"
    /\ UNCHANGED <<lock, pcIo, inflight, delivered, meanVars, configVars, transformVars>>

\* clear(), then the lock is released.
LoopClear ==
    /\ pcLoop = "clear"
    /\ Store(Cleared)
    /\ history' = <<>>
    /\ lastOp' = "clear"
    /\ discarded' = Len(history)
    /\ pcLoop' = "idle"
    /\ lock' = IF lock = "loop" THEN "free" ELSE lock
    /\ UNCHANGED <<pcIo, inflight, delivered, extracted, configVars, transformVars>>

---------------------------------------------------------------------------
\* Specifications.

Init == ConfigInit /\ tNode = <<>> /\ tResult = <<>> /\ MeanInit /\ ThreadInit
Next == \E doc \in Documents : loadFromString(doc)
Spec == Init /\ [][Next]_vars

InitTransform == ConfigInit /\ TransformInit /\ MeanInit /\ ThreadInit
NextTransform == CallParseTransform
SpecTransform == InitTransform /\ [][NextTransform]_vars

InitMean == Init
NextMean ==
    \/ \E vec \in VectorInputs, weight \in WeightInputs : addVec3(vec, weight)
    \/ \E quat \in QuatInputs, weight \in WeightInputs : addQuat(quat, weight)
    \/ clear
SpecMean == InitMean /\ [][NextMean]_vars

InitThreads == Init
NextThreads ==
    \/ \E vec \in VectorInputs, quat \in QuatInputs, weight \in WeightInputs :
          IoLock(vec, quat, weight)
    \/ IoVectors
    \/ IoVectorWeights
    \/ IoQuats
    \/ IoQuatWeights
    \/ LoopLock
    \/ LoopExtract
    \/ LoopClear
SpecThreads == InitThreads /\ [][NextThreads]_vars

---------------------------------------------------------------------------
\* Operators the properties are stated with.

\* The state the first n add calls of h lead to, from a cleared WeightedMean.
RECURSIVE ReplayTo(_, _)
ReplayTo(h, n) ==
    IF n = 0 THEN ZeroState
    ELSE IF h[n].quat
         THEN AddQuat(ReplayTo(h, n - 1), h[n].value, h[n].weight)
         ELSE AddVec3(ReplayTo(h, n - 1), SubSeq(h[n].value, 1, 3), h[n].weight)
Replay(h) == ReplayTo(h, Len(h))

VectorAdds(h) == SelectSeq(h, LAMBDA c : ~c.quat)

\* Sum of w_i * v_i, sum of w_i and sum of v_i over the addVec3 calls of h.
RECURSIVE SumWeighted(_)
SumWeighted(h) ==
    IF Len(h) = 0 THEN Zero3
    ELSE LET rest == SumWeighted(Tail(h))
         IN  [i \in 1..3 |-> (Head(h).weight * Head(h).value[i]) \div One + rest[i]]
RECURSIVE SumWeights(_)
SumWeights(h) == IF Len(h) = 0 THEN 0 ELSE Head(h).weight + SumWeights(Tail(h))
RECURSIVE SumVectors(_)
SumVectors(h) ==
    IF Len(h) = 0 THEN Zero3
    ELSE LET rest == SumVectors(Tail(h))
         IN  [i \in 1..3 |-> Head(h).value[i] + rest[i]]

Negated(q) == [i \in 1..Len(q) |-> 0 - q[i]]

\* The entities the loads of l appended, and the nodes they were read from.
RECURSIVE FlatAppended(_)
FlatAppended(l) ==
    IF Len(l) = 0 THEN <<>>
    ELSE FlatAppended(SubSeq(l, 1, Len(l) - 1)) \o l[Len(l)].appended
RECURSIVE FlatNodes(_)
FlatNodes(l) ==
    IF Len(l) = 0 THEN <<>>
    ELSE FlatNodes(SubSeq(l, 1, Len(l) - 1))
         \o SubSeq(Children(l[Len(l)].doc.entities), 1, Len(l[Len(l)].appended))

\* The names of an entity node, of its sensors and the ids of its markers,
\* in document order; and the same of a loaded entity.
NodeKey(node) ==
    [name    |-> IF Len(node.entity) = 1 THEN node.entity[1] ELSE "undefined",
     sensors |-> [k \in 1..Len(Children(node.sensors)) |->
                    IF Len(Children(node.sensors)[k].sensor) = 1
                    THEN Children(node.sensors)[k].sensor[1] ELSE "undefined"],
     markers |-> [k \in 1..Len(Children(node.markers)) |->
                    IF Len(Children(node.markers)[k].marker) = 1
                    THEN Children(node.markers)[k].marker[1] ELSE 0 - 1]]
EntityKey(e) ==
    [name    |-> e.name,
     sensors |-> [k \in 1..Len(e.sensors) |-> e.sensors[k].name],
     markers |-> [k \in 1..Len(e.markers) |-> e.markers[k].id]]
NodeKeys(nodes) == [j \in 1..Len(nodes) |-> NodeKey(nodes[j])]
EntityKeys(list) == [j \in 1..Len(list) |-> EntityKey(list[j])]

\* The options after the loads of l: those of the last load that completed
\* and whose document has an 'options' section.
RECURSIVE OptionsAfter(_)
OptionsAfter(l) ==
    IF Len(l) = 0 THEN UnloadedOptions
    ELSE IF ~l[Len(l)].threw /\ Len(l[Len(l)].doc.options) = 1
         THEN LoadOptions(l[Len(l)].doc.options[1])
         ELSE OptionsAfter(SubSeq(l, 1, Len(l) - 1))

\* The transform nodes of a document, and whether all their arrays hold
\* numbers only (the document is malformed by missing keys or sizes alone).
NodeTransforms(node) ==
    {Children(node.sensors)[k].transform : k \in 1..Len(Children(node.sensors))}
    \cup {Children(node.markers)[k].transform : k \in 1..Len(Children(node.markers))}
DocTransformNodes(doc) ==
    UNION {NodeTransforms(Children(doc.entities)[j]) : j \in 1..Len(Children(doc.entities))}
NumbersOnly(doc) ==
    \A t \in DocTransformNodes(doc) :
        Len(t) = 1 =>
            /\ Len(t[1].rot) = 1 => Converts(t[1].rot[1])
            /\ Len(t[1].origin) = 1 => Converts(t[1].origin[1])

\* The documented defaults of a transform read from node: identity without
\* a node; identity rotation unless 'rot' has 3 or 4 elements, with a warning
\* when 'rot' has another size; zero origin unless 'origin' has 3 elements.
TransformDefaults(node, transf, warns) ==
    IF Len(node) = 0 THEN transf = IdentityTransform
    ELSE /\ Size(node[1].rot) \notin {3, 4} => transf.rot = IdentityQuat
         /\ Size(node[1].rot) \notin {0, 3, 4} => "rot" \in warns
         /\ Size(node[1].origin) # 3 => transf.origin = Zero3

\* The documented defaults of an entity read from node.
EntityDefaults(node, e, warns) ==
    /\ Len(node.entity) = 0 => e.name = "undefined"
    /\ Len(node.filterAlpha) = 0 => e.filterConfig.alpha = 10
    /\ Len(e.sensors) = Len(Children(node.sensors))
    /\ Len(e.markers) = Len(Children(node.markers))
    /\ \A k \in 1..Len(e.sensors) :
        /\ Len(Children(node.sensors)[k].type) = 0 => e.sensors[k].type = MarkerBased
        /\ Len(Children(node.sensors)[k].sigma) = 0 => e.sensors[k].sigma = 100
        /\ TransformDefaults(Children(node.sensors)[k].transform, e.sensors[k].transf, warns)
    /\ \A k \in 1..Len(e.markers) :
        /\ Len(Children(node.markers)[k].marker) = 0 => e.markers[k].id = 0 - 1
        /\ TransformDefaults(Children(node.markers)[k].transform, e.markers[k].transf, warns)

\* The type the configuration names for a sensor: MarkerBased unless the
\* 'type' entry is the name NonMarkerBased.
NamedType(type) ==
    IF type = <<"NonMarkerBased">> THEN NonMarkerBased ELSE MarkerBased

---------------------------------------------------------------------------
\* Properties.

\* C1: after addVec3(v_i, w_i) calls with total weight > 0 since the last
\* clear(), weightedMeanVec3() is (sum of w_i * v_i) / (sum of w_i); with all
\* weights equal it is the arithmetic mean (sum of v_i) / n.
C1_WeightedMeanVec3 ==
    LET adds == VectorAdds(history)
    IN  SumWeights(adds) > 0 =>
          /\ weightedMeanVec3 = Quotient(SumWeighted(adds), SumWeights(adds))
          /\ (\A i \in 1..Len(adds) : adds[i].weight = adds[1].weight)
               => weightedMeanVec3 = Quotient(SumVectors(adds), Len(adds) * One)

\* C1 witness: two different vectors were added with different positive weights.
C1_Witness ==
    \E i, j \in 1..Len(history) :
        /\ ~history[i].quat /\ ~history[j].quat
        /\ history[i].value # history[j].value
        /\ history[i].weight > 0 /\ history[j].weight > history[i].weight

C5_OriginDefaultsToZero ==
    (Len(tResult) = 1 /\ ~tResult[1].threw
        /\ (Len(tNode) = 0 \/ Size(tNode[1].origin) # 3))
    => tResult[1].transf.origin = Zero3

\* C6: a load of a document malformed only by missing keys or wrong-sized
\* 'rot'/'origin' arrays completes, loads every entity, gives every affected
\* field its default, and warns about a wrong-sized 'rot'.
C6_MalformedLoadsGetDefaults ==
    \A i \in 1..Len(loaded) :
        NumbersOnly(loaded[i].doc) =>
            /\ ~loaded[i].threw
            /\ Len(loaded[i].appended) = Len(Children(loaded[i].doc.entities))
            /\ \A j \in 1..Len(loaded[i].appended) :
                 EntityDefaults(Children(loaded[i].doc.entities)[j],
                                loaded[i].appended[j], loaded[i].warns)

\* C7: every loaded sensor has the type its 'type' entry names, and
\* MarkerBased when the entry is absent or is no type name.
C7_SensorTypeDefault ==
    /\ Len(FlatNodes(loaded)) = Len(m_entities)
    /\ \A n \in 1..Len(m_entities) :
         LET sensorNodes == Children(FlatNodes(loaded)[n].sensors)
         IN  /\ Len(m_entities[n].sensors) = Len(sensorNodes)
             /\ \A k \in 1..Len(sensorNodes) :
                  m_entities[n].sensors[k].type = NamedType(sensorNodes[k].type)

\* C7 witness: sensors without a type, with an unknown type name and with
\* the type NonMarkerBased are loaded.
C7_Witness ==
    \A type \in {<<>>, <<"Lidar">>, <<"NonMarkerBased">>} :
        \E n \in 1..Len(m_entities) :
            /\ n <= Len(FlatNodes(loaded))
            /\ \E k \in 1..Len(Children(FlatNodes(loaded)[n].sensors)) :
                 Children(FlatNodes(loaded)[n].sensors)[k].type = type

\* C10: the entity list is the concatenation, in load order, of what each
\* load appended; each load appends its document's entities in document
\* order with their sensors and markers in document order (all of them when
\* it completes); the options are those of the last completed load whose
\* document has an 'options' section.
C10_LoadsAppend ==
    /\ m_entities = FlatAppended(loaded)
    /\ \A i \in 1..Len(loaded) :
         LET keys == NodeKeys(Children(loaded[i].doc.entities))
         IN  /\ Len(loaded[i].appended) <= Len(keys)
             /\ EntityKeys(loaded[i].appended) = SubSeq(keys, 1, Len(loaded[i].appended))
             /\ ~loaded[i].threw => Len(loaded[i].appended) = Len(keys)
    /\ m_options = OptionsAfter(loaded)

\* C10 witness: two loads of two entities each; the first set the options,
\* the second document has no 'options' section.
C10_Witness ==
    /\ Len(loaded) = 2
    /\ Len(loaded[1].appended) = 2 /\ Len(loaded[2].appended) = 2
    /\ loaded[1].appended # loaded[2].appended
    /\ Len(loaded[1].doc.options) = 1
    /\ Len(loaded[2].doc.options) = 0
    /\ m_options # UnloadedOptions

=============================================================================
